---- MODULE Spec2Model ----
(***************************************************************************)
(* zrpc: a 0mq RPC layer.  ZRPCServer (REP socket) serves ZRPCClient (REQ  *)
(* socket) calls; ZWorker (PULL) executes the calls ZMaster (PUSH) pushes. *)
(***************************************************************************)
EXTENDS Integers, Sequences, FiniteSets, TLC

\* ------------------------------------------------------------------ bounds
MaxCalls == 3      \* proxy calls started by all clients together
MaxRegOps == 2     \* add_function / remove_function calls on one registry
MaxPush == 2       \* invocations made through the master

\* ------------------------------------------------------- python values
\* A Python value: its kind, an atom (text) and a set of names (list items,
\* exception arguments).
None == [k |-> "none", a |-> "", s |-> {}]
PyTrue == [k |-> "bool", a |-> "True", s |-> {}]
PyFalse == [k |-> "bool", a |-> "False", s |-> {}]
Str(x) == [k |-> "str", a |-> x, s |-> {}]
PyList(S) == [k |-> "list", a |-> "", s |-> S]
Exc(type, arg) == [k |-> "exc", a |-> type, s |-> {arg}]
DocText(h) == [k |-> "doc", a |-> h, s |-> {}]
PyTuple(args, kwargs) == [k |-> "tuple", args |-> args, kwargs |-> kwargs]

\* bool(v) as rpc_call applies it to the popped _suppress value
Truthy(v) == v \notin {None, PyFalse}

NoKw == [x \in {} |-> None]

\* pickle: dumps wraps the value in an opaque payload, loads unwraps it
dumps(v) == [pickle |-> v]
loads(b) == b.pickle

\* send_pyobj / recv_pyobj pickle the whole envelope
send_pyobj(env) == [pickle |-> env]
recv_pyobj(msg) == msg.pickle

\* --------------------------------------------------------------- registry
BuiltinNames == {"list_functions", "documentation", "echo"}
KILL == "kill_server"

\* handlers a caller can register: one returning (args, kwargs), one raising
UserHandlers == {"h_ret", "h_raise"}

\* a constructor that seeds list_functions and documentation only
SeedMethodsNoEcho(m) ==
    [n \in (DOMAIN m) \cup {"list_functions", "documentation"} |->
        CASE n = "list_functions" -> "_list_methods"
          [] n = "documentation" -> "_get_doc"
          [] OTHER -> m[n]]

\* a constructor that seeds with setdefault: a supplied entry under a
\* built-in name is kept
SeedMethodsSetdefault(m) ==
    [n \in (DOMAIN m) \cup BuiltinNames |->
        IF n \in DOMAIN m THEN m[n]
        ELSE CASE n = "list_functions" -> "_list_methods"
               [] n = "documentation" -> "_get_doc"
               [] OTHER -> "_echo"]

\* ZBaseServer.__init__: self.methods = methods or {}, then the built-ins
SeedMethods(m) ==
    [n \in (DOMAIN m) \cup BuiltinNames |->
        CASE n = "list_functions" -> "_list_methods"
          [] n = "documentation" -> "_get_doc"
          [] n = "echo" -> "_echo"
          [] OTHER -> m[n]]

\* add_function: self.methods[func_name] = function
add_function(m, func_name, function) ==
    [n \in (DOMAIN m) \cup {func_name} |->
        IF n = func_name THEN function ELSE m[n]]

\* a remove_function that never removes a built-in
remove_function_keep_builtins(m, func_name) ==
    [n \in (DOMAIN m) \ ({func_name} \ BuiltinNames) |-> m[n]]

\* remove_function: self.methods.pop(func_name, None)
remove_function(m, func_name) ==
    [n \in (DOMAIN m) \ {func_name} |-> m[n]]

\* _list_methods: self.methods.keys()
list_methods(m) == PyList(DOMAIN m)

\* the outcome of func(*args, **kwargs) on registry m
Returned(v) == [raised |-> FALSE, value |-> v]
Raised(e) == [raised |-> TRUE, value |-> e]

Invoke(func, args, kwargs, m) ==
    CASE func = "_list_methods" ->
            IF Len(args) = 0 /\ DOMAIN kwargs = {}
            THEN Returned(list_methods(m))
            ELSE Raised(Exc("TypeError", "_list_methods"))
      [] func = "_echo" ->
            IF Len(args) = 1 /\ DOMAIN kwargs = {}
            THEN Returned(args[1])
            ELSE IF Len(args) = 0 /\ DOMAIN kwargs = {"statement"}
            THEN Returned(kwargs["statement"])
            ELSE Raised(Exc("TypeError", "_echo"))
      [] func = "_get_doc" ->
            IF Len(args) = 1 /\ DOMAIN kwargs = {}
            THEN IF args[1].a \in DOMAIN m
                 THEN Returned(DocText(m[args[1].a]))
                 ELSE Raised(Exc("NotImplementedError", args[1].a))
            ELSE Raised(Exc("TypeError", "_get_doc"))
      [] func = "h_ret" -> Returned(PyTuple(args, kwargs))
      [] OTHER -> Raised(Exc("NameError", "foo"))

\* traceback.format_exc() at the raise site: text naming the error
format_exc(e) == [k |-> "trace", a |-> e.a, s |-> e.s]
Pair(x, y) == [k |-> "pair", fst |-> x, snd |-> y]

\* ------------------------------------------------------------- call frames
\* send_multipart([method, dumps(args), dumps(kwargs)])
CallFrame(method, args, kwargs) == <<method, dumps(args), dumps(kwargs)>>

\* get_message: name raw, the two payloads unpickled independently
get_message(message) ==
    [name |-> message[1], args |-> loads(message[2]), kwargs |-> loads(message[3])]

NoFrame == [name |-> "", args |-> <<>>, kwargs |-> NoKw]

\* a frame part that serializer.loads cannot decode
Garbage == [bytes |-> "garbage"]
Decodable(b) == "pickle" \in DOMAIN b
\* get_message raises: message[1] or message[2] is missing (IndexError), or
\* serializer.loads rejects one of them
get_message_fails(message) ==
    IF Len(message) < 3
    THEN TRUE
    ELSE ~Decodable(message[2]) \/ ~Decodable(message[3])

\* an rpc_call that reads _suppress with kwargs.get and so leaves it in place
KeepSuppress(kwargs) == kwargs

\* kwargs.pop('_suppress', None): the value popped and the mapping left
PopSuppress(kwargs) ==
    IF "_suppress" \in DOMAIN kwargs THEN kwargs["_suppress"] ELSE None
WithoutSuppress(kwargs) ==
    [x \in (DOMAIN kwargs) \ {"_suppress"} |-> kwargs[x]]

\* ------------------------------------------------------ response envelopes
\* ZRPCServer._run, the kill_server branch
KillReply == [status |-> PyTrue, result |-> PyTrue]
\* ZRPCServer._run, the KeyError branch
UnknownReply == [status |-> None, result |-> None]
\* an _execute_with_tracebacks that reports success without the results
ExecReplyFlagOnly(out) ==
    IF out.raised
    THEN [status |-> PyFalse, result |-> Pair(out.value, format_exc(out.value))]
    ELSE [status |-> PyTrue, result |-> PyTrue]

\* _execute_with_tracebacks: the envelope for the outcome of the handler
ExecReply(out) ==
    IF out.raised
    THEN [status |-> PyFalse, result |-> Pair(out.value, format_exc(out.value))]
    ELSE [status |-> PyTrue, result |-> out.value]

\* a _call that hands back the traceback text in place of the error value
ClientInterpretTrace(response) ==
    IF response.status = None THEN <<None, None>>
    ELSE IF response.status = PyFalse THEN <<PyFalse, response.result.snd>>
    ELSE <<PyTrue, response.result>>

\* ZRPCClient._call: (status, result) from the response
ClientInterpret(response) ==
    IF response.status = None THEN <<None, None>>
    ELSE IF response.status = PyFalse THEN <<PyFalse, response.result.fst>>
    ELSE <<PyTrue, response.result>>

\* an rpc_call that never looks at suppress_errors
ProxyOutcomeNoSuppress(method, suppress_errors, sr) ==
    IF ~Truthy(sr[1])
    THEN IF sr[2] = None
         THEN [kind |-> "raised", value |-> Exc("NotImplementedError", method)]
         ELSE [kind |-> "raised", value |-> sr[2]]
    ELSE [kind |-> "returned", value |-> sr[2]]

\* rpc_call: what the proxy call does with (status, result)
ProxyOutcome(method, suppress_errors, sr) ==
    IF ~Truthy(sr[1])
    THEN IF suppress_errors THEN [kind |-> "returned", value |-> None]
         ELSE IF sr[2] = None
         THEN [kind |-> "raised", value |-> Exc("NotImplementedError", method)]
         ELSE [kind |-> "raised", value |-> sr[2]]
    ELSE [kind |-> "returned", value |-> sr[2]]

\* a _run whose KeyError branch drops the frame, as ZWorker's does
UnknownSendsNothing == <<>>
\* a _run that closes the socket without acknowledging kill_server
KillSendsNothing == <<>>

\* a _run that executes the handler and sends no envelope for it
ExecSendsNothing(out) == <<>>

\* what each branch of ZRPCServer._run sends on the REP socket
KillSends == <<send_pyobj(KillReply)>>
UnknownSends == <<send_pyobj(UnknownReply)>>
ExecSends(out) == <<send_pyobj(ExecReply(out))>>

\* ------------------------------------------------------------------ inputs
Clients == {"c1", "c2"}
CallNames == BuiltinNames \cup {"foo", KILL}
CallArgs == {<<>>, <<Str("foo")>>}
KwKeys == {"_suppress", "statement"}
KwValues(key) == IF key = "_suppress" THEN {PyTrue, PyFalse} ELSE {Str("foo")}
CallKwargs ==
    UNION {{kw \in [D -> {PyTrue, PyFalse, Str("foo")}] :
                \A key \in D : kw[key] \in KwValues(key)} : D \in SUBSET KwKeys}
\* the methods mapping handed to the constructor
InitMappings == {NoKw, [n \in {"foo"} |-> "h_ret"], [n \in {"echo"} |-> "h_raise"]}
AddNames == {"foo", KILL, "echo"}
RemoveNames == {"foo", "documentation", KILL}

\* ------------------------------------------------------------------- state
VARIABLES
    clients,    \* the ZRPCClient instances connected to the server
    methods,    \* ZRPCServer.methods: name -> handler
    spc,        \* where ZRPCServer._run is
    cur,        \* (func_name, args, kwargs) of the frame being served
    peer,       \* the client the REP socket will route the reply to
    func,       \* the handler fetched from methods
    sockOpen,   \* the server socket is not closed
    req,        \* per client: call frames sent and not yet received by the server
    rep,        \* per client: envelopes sent by the server, not yet received
    cpc,        \* per client: where the proxy call is
    ccall,      \* per client: the call as made (method, args, kwargs)
    cres,       \* per client: the value returned or raised
    hout,       \* per client: what the server did with the call (history)
    nrecv,      \* frames the server received (history)
    nsent,      \* envelopes the server sent (history)
    ninvoked,   \* handler invocations of the server (history)
    ncalls,     \* proxy calls started (history)
    nregops,    \* add_function / remove_function calls made (history)
    registered, \* names given at construction or to add_function and not
                \* since given to remove_function, with the built-ins (history)
    wmethods,   \* ZWorker.methods: name -> handler
    wpc,        \* where ZWorker._run is
    wcur,       \* (func_name, args, kwargs) of the frame the worker pulled
    wfunc,      \* the handler the worker fetched
    wsockOpen,  \* the worker socket is not closed
    chan,       \* frames pushed by the master, not yet pulled
    wsent,      \* messages the worker sent on its socket (history)
    wlog,       \* what the worker logged at error level (history)
    winvoked,   \* handler invocations of the worker (history)
    mlast,      \* the master's last invocation and how it ended
    minv,       \* invocations made through the master (history)
    mpushed,    \* frames the master pushed (history)
    mrecv,      \* messages the master received (history)
    nwregops,   \* add_function / remove_function calls on the worker (history)
    wsupplied,  \* the methods mapping the worker's constructor was given
    sameDict    \* server.methods and worker.methods are one dict object

rpcvars == <<clients, methods, spc, cur, peer, func, sockOpen, req, rep, cpc, ccall, cres,
             hout, nrecv, nsent, ninvoked, ncalls, nregops, registered>>

wvars == <<wmethods, wpc, wcur, wfunc, wsockOpen, chan, wsent, wlog, winvoked,
           mlast, minv, mpushed, mrecv, nwregops>>

\* what construction fixes for good
ctorvars == <<wsupplied, sameDict>>
\* everything of the server and its clients but the registry
rpcrest == <<clients, spc, cur, peer, func, sockOpen, req, rep, cpc, ccall, cres,
             hout, nrecv, nsent, ninvoked, ncalls, nregops, registered>>
\* everything of the worker and its master but the registry
wrest == <<wpc, wcur, wfunc, wsockOpen, chan, wsent, wlog, winvoked,
           mlast, minv, mpushed, mrecv, nwregops>>

\* self.methods = methods or {}: a non-empty mapping is taken as it is, the
\* very object of the caller; an empty one (or None) is replaced by a new dict
KeepsCallersDict(m) == DOMAIN m # {}
\* the caller's mapping after ZWorker(address, methods=m)
CallerMapping == IF KeepsCallersDict(wsupplied) THEN wmethods ELSE wsupplied

NoCall == [method |-> "", args |-> <<>>, kwargs |-> NoKw]

InitRPCFor(connected, mappings) ==
    /\ clients = connected
    /\ \E m \in mappings :
        /\ methods = SeedMethods(m)
        /\ registered = (DOMAIN m) \cup BuiltinNames
    /\ spc = "recv"
    /\ cur = NoFrame
    /\ peer = "c1"
    /\ func = ""
    /\ sockOpen = TRUE
    /\ req = [c \in Clients |-> <<>>]
    /\ rep = [c \in Clients |-> <<>>]
    /\ cpc = [c \in Clients |-> "idle"]
    /\ ccall = [c \in Clients |-> NoCall]
    /\ cres = [c \in Clients |-> None]
    /\ hout = [c \in Clients |-> <<>>]
    /\ nrecv = 0
    /\ nsent = 0
    /\ ninvoked = 0
    /\ ncalls = 0
    /\ nregops = 0

InitRPC(mappings) == InitRPCFor({"c1"}, mappings)

\* history of a kill_server frame: whether the registry held a handler under
\* that name, and what that handler returns for the frame's arguments
KillHistory(m, frame) ==
    [branch |-> "kill", registered |-> KILL \in DOMAIN m,
     out |-> IF KILL \in DOMAIN m
             THEN Invoke(m[KILL], frame.args, frame.kwargs, m)
             ELSE Returned(None)]

\* ------------------------------------------------------- registry mutation
AddFunction(n, h) ==
    /\ nregops < MaxRegOps
    /\ methods' = add_function(methods, n, h)
    /\ registered' = registered \cup {n}
    /\ nregops' = nregops + 1
    /\ wmethods' = IF sameDict THEN methods' ELSE wmethods
    /\ UNCHANGED <<wrest, ctorvars>>
    /\ UNCHANGED <<clients, spc, cur, peer, func, sockOpen, req, rep, cpc, ccall, cres,
                   hout, nrecv, nsent, ninvoked, ncalls>>

RemoveFunction(n) ==
    /\ nregops < MaxRegOps
    /\ methods' = remove_function(methods, n)
    /\ registered' = registered \ {n}
    /\ nregops' = nregops + 1
    /\ wmethods' = IF sameDict THEN methods' ELSE wmethods
    /\ UNCHANGED <<wrest, ctorvars>>
    /\ UNCHANGED <<clients, spc, cur, peer, func, sockOpen, req, rep, cpc, ccall, cres,
                   hout, nrecv, nsent, ninvoked, ncalls>>

\* ---------------------------------------------------------- ZRPCServer._run
\* a REP socket that keeps answering the peer of an earlier request
ServerRecvKeepsPeer(c) ==
    /\ spc = "recv"
    /\ sockOpen
    /\ req[c] # <<>>
    /\ ~get_message_fails(Head(req[c]))
    /\ cur' = get_message(Head(req[c]))
    /\ req' = [req EXCEPT ![c] = Tail(@)]
    /\ spc' = "dispatch"
    /\ nrecv' = nrecv + 1
    /\ UNCHANGED <<wvars, registered, ctorvars>>
    /\ UNCHANGED <<clients, methods, peer, func, sockOpen, rep, cpc, ccall, cres, hout,
                   nsent, ninvoked, ncalls, nregops>>

\* func_name, args, kwargs = self.get_message()
ServerRecv(c) ==
    /\ spc = "recv"
    /\ sockOpen
    /\ req[c] # <<>>
    /\ ~get_message_fails(Head(req[c]))
    /\ cur' = get_message(Head(req[c]))
    /\ peer' = c
    /\ req' = [req EXCEPT ![c] = Tail(@)]
    /\ spc' = "dispatch"
    /\ nrecv' = nrecv + 1
    /\ UNCHANGED <<wvars, registered, ctorvars>>
    /\ UNCHANGED <<clients, methods, func, sockOpen, rep, cpc, ccall, cres, hout, nsent,
                   ninvoked, ncalls, nregops>>

\* a _run that answers a frame get_message rejects as it answers an unknown
\* name, and goes on
ServerRecvMalformedSkips(c) ==
    /\ spc = "recv"
    /\ sockOpen
    /\ req[c] # <<>>
    /\ get_message_fails(Head(req[c]))
    /\ peer' = c
    /\ req' = [req EXCEPT ![c] = Tail(@)]
    /\ rep' = [rep EXCEPT ![c] = @ \o UnknownSends]
    /\ nsent' = nsent + Len(UnknownSends)
    /\ nrecv' = nrecv + 1
    /\ UNCHANGED <<wvars, registered, ctorvars>>
    /\ UNCHANGED <<clients, methods, spc, cur, func, sockOpen, cpc, ccall, cres, hout,
                   ninvoked, ncalls, nregops>>

\* func_name, args, kwargs = self.get_message() raising: nothing in _run
\* catches it, the loop is left with the socket still open and nothing sent
ServerRecvMalformed(c) ==
    /\ spc = "recv"
    /\ sockOpen
    /\ req[c] # <<>>
    /\ get_message_fails(Head(req[c]))
    /\ peer' = c
    /\ req' = [req EXCEPT ![c] = Tail(@)]
    /\ spc' = "crashed"
    /\ nrecv' = nrecv + 1
    /\ UNCHANGED <<wvars, registered, ctorvars>>
    /\ UNCHANGED <<clients, methods, cur, func, sockOpen, rep, cpc, ccall, cres, hout,
                   nsent, ninvoked, ncalls, nregops>>

\* if func_name == 'kill_server': send_pyobj({'status': True, 'result': True})
ServerKillReply ==
    /\ spc = "dispatch"
    /\ cur.name = KILL
    /\ rep' = [rep EXCEPT ![peer] = @ \o KillSends]
    /\ nsent' = nsent + Len(KillSends)
    /\ hout' = [hout EXCEPT ![peer] = <<KillHistory(methods, cur)>>]
    /\ spc' = "closing"
    /\ UNCHANGED <<wvars, registered, ctorvars>>
    /\ UNCHANGED <<clients, methods, cur, peer, func, sockOpen, req, cpc, ccall, cres,
                   nrecv, ninvoked, ncalls, nregops>>

\* self.sock.close(); break
ServerClose ==
    /\ spc = "closing"
    /\ sockOpen' = FALSE
    /\ spc' = "stopped"
    /\ UNCHANGED <<wvars, registered, ctorvars>>
    /\ UNCHANGED <<clients, methods, cur, peer, func, req, rep, cpc, ccall, cres, hout,
                   nrecv, nsent, ninvoked, ncalls, nregops>>

\* except KeyError: send_pyobj({'status': None, 'result': None})
ServerUnknown ==
    /\ spc = "dispatch"
    /\ cur.name # KILL
    /\ cur.name \notin DOMAIN methods
    /\ rep' = [rep EXCEPT ![peer] = @ \o UnknownSends]
    /\ nsent' = nsent + Len(UnknownSends)
    /\ hout' = [hout EXCEPT ![peer] = <<[branch |-> "unknown", registered |-> FALSE,
                                          out |-> Returned(None)]>>]
    /\ spc' = "recv"
    /\ cur' = NoFrame
    /\ UNCHANGED <<wvars, registered, ctorvars>>
    /\ UNCHANGED <<clients, methods, peer, func, sockOpen, req, cpc, ccall, cres,
                   nrecv, ninvoked, ncalls, nregops>>

\* a _run that looks the name up first and tests for kill_server only when
\* the registry has no such name
ServerLookupBeforeSentinel ==
    /\ spc = "dispatch"
    /\ cur.name \in DOMAIN methods
    /\ func' = methods[cur.name]
    /\ spc' = "exec"
    /\ UNCHANGED <<wvars, registered, ctorvars>>
    /\ UNCHANGED <<clients, methods, cur, peer, sockOpen, req, rep, cpc, ccall, cres, hout,
                   nrecv, nsent, ninvoked, ncalls, nregops>>

\* func = self.methods[func_name]
ServerLookup ==
    /\ spc = "dispatch"
    /\ cur.name # KILL
    /\ cur.name \in DOMAIN methods
    /\ func' = methods[cur.name]
    /\ spc' = "exec"
    /\ UNCHANGED <<wvars, registered, ctorvars>>
    /\ UNCHANGED <<clients, methods, cur, peer, sockOpen, req, rep, cpc, ccall, cres, hout,
                   nrecv, nsent, ninvoked, ncalls, nregops>>

\* a _run that calls the handler outside any try: an exception leaves the loop
ServerExecuteUncaught ==
    /\ spc = "exec"
    /\ LET out == Invoke(func, cur.args, cur.kwargs, methods) IN
        /\ rep' = [rep EXCEPT ![peer] = @ \o (IF out.raised THEN <<>> ELSE ExecSends(out))]
        /\ nsent' = nsent + (IF out.raised THEN 0 ELSE Len(ExecSends(out)))
        /\ hout' = [hout EXCEPT ![peer] = <<[branch |-> "exec", registered |-> TRUE,
                                              out |-> out]>>]
        /\ spc' = IF out.raised THEN "crashed" ELSE "recv"
    /\ ninvoked' = ninvoked + 1
    /\ cur' = NoFrame
    /\ func' = ""
    /\ UNCHANGED <<wvars, registered, ctorvars>>
    /\ UNCHANGED <<clients, methods, peer, sockOpen, req, cpc, ccall, cres,
                   nrecv, ncalls, nregops>>

\* self._execute_with_tracebacks(func, args, kwargs)
ServerExecute ==
    /\ spc = "exec"
    /\ LET out == Invoke(func, cur.args, cur.kwargs, methods) IN
        /\ rep' = [rep EXCEPT ![peer] = @ \o ExecSends(out)]
        /\ nsent' = nsent + Len(ExecSends(out))
        /\ hout' = [hout EXCEPT ![peer] = <<[branch |-> "exec", registered |-> TRUE,
                                              out |-> out]>>]
    /\ ninvoked' = ninvoked + 1
    /\ spc' = "recv"
    /\ cur' = NoFrame
    /\ func' = ""
    /\ UNCHANGED <<wvars, registered, ctorvars>>
    /\ UNCHANGED <<clients, methods, peer, sockOpen, req, cpc, ccall, cres,
                   nrecv, ncalls, nregops>>

\* ------------------------------------------------- ZRPCClient proxy call
\* rpc_call up to the send in _call
ClientCall(c, method, args, kwargs) ==
    /\ cpc[c] # "waiting"
    /\ ncalls < MaxCalls
    /\ req' = [req EXCEPT ![c] =
                  Append(@, CallFrame(method, args, WithoutSuppress(kwargs)))]
    /\ ccall' = [ccall EXCEPT ![c] =
                  [method |-> method, args |-> args, kwargs |-> kwargs]]
    /\ cpc' = [cpc EXCEPT ![c] = "waiting"]
    /\ cres' = [cres EXCEPT ![c] = None]
    /\ hout' = [hout EXCEPT ![c] = <<>>]
    /\ ncalls' = ncalls + 1
    /\ UNCHANGED <<wvars, registered, ctorvars>>
    /\ UNCHANGED <<clients, methods, spc, cur, peer, func, sockOpen, rep, nrecv, nsent,
                   ninvoked, nregops>>

\* recv_pyobj in _call, then the rest of rpc_call
ClientRecv(c) ==
    /\ cpc[c] = "waiting"
    /\ rep[c] # <<>>
    /\ LET o == ProxyOutcome(ccall[c].method,
                             Truthy(PopSuppress(ccall[c].kwargs)),
                             ClientInterpret(recv_pyobj(Head(rep[c])))) IN
        /\ cpc' = [cpc EXCEPT ![c] = o.kind]
        /\ cres' = [cres EXCEPT ![c] = o.value]
    /\ rep' = [rep EXCEPT ![c] = Tail(@)]
    /\ UNCHANGED <<wvars, registered, ctorvars>>
    /\ UNCHANGED <<clients, methods, spc, cur, peer, func, sockOpen, req, ccall, hout,
                   nrecv, nsent, ninvoked, ncalls, nregops>>

NextRPC ==
    \/ \E n \in AddNames, h \in UserHandlers : AddFunction(n, h)
    \/ \E n \in RemoveNames : RemoveFunction(n)
    \/ \E c \in clients : ServerRecv(c)
    \/ ServerKillReply
    \/ ServerClose
    \/ ServerUnknown
    \/ ServerLookup
    \/ ServerExecute
    \/ \E c \in clients, method \in CallNames, args \in CallArgs, kwargs \in CallKwargs :
            ClientCall(c, method, args, kwargs)
    \/ \E c \in clients : ClientRecv(c)

\* ---------------------------------------------------------------- ZMaster
MasterNames == {"echo", "foo", KILL}
MasterArgs == {<<Str("foo")>>}
MasterKwargs == {NoKw, [x \in {"statement"} |-> Str("foo")]}

NoInvocation == [via |-> "", method |-> "", outcome |-> ""]

\* a ZWorker._run that acknowledges kill_server as ZRPCServer._run does
WorkerKillSendsAck == <<send_pyobj(KillReply)>>
\* an _execute_async whose except branch fails on func_name as its else branch does
AsyncNextAlwaysCrash(out) == "crashed"

\* ZWorker: what each branch of _run / _execute_async sends on the PULL socket
WorkerKillSends == <<>>
WorkerUnknownSends == <<>>
WorkerExecSends(out) == <<>>

\* _execute_async: the except branch logs the error and returns; the else
\* branch evaluates func_name, an undefined name, and NameError leaves _run
AsyncLog(out) == IF out.raised THEN <<Pair(out.value, format_exc(out.value))>> ELSE <<>>
AsyncNext(out) == IF out.raised THEN "recv" ELSE "crashed"

\* ZMaster._call: what is pushed
MasterPushes(method, args, kwargs) == <<CallFrame(method, args, kwargs)>>
\* ZMaster.__getattr__: args and kwargs are undefined names there, NameError
\* is raised before _call is reached
MasterProxyPushes(method) == <<>>

InitWorker(mappings) ==
    /\ \E m \in mappings :
        /\ wmethods = SeedMethods(m)
        /\ wsupplied = m
    /\ wpc = "recv"
    /\ wcur = NoFrame
    /\ wfunc = ""
    /\ wsockOpen = TRUE
    /\ chan = <<>>
    /\ wsent = <<>>
    /\ wlog = <<>>
    /\ winvoked = 0
    /\ mlast = NoInvocation
    /\ minv = 0
    /\ mpushed = 0
    /\ mrecv = 0
    /\ nwregops = 0

\* master._call(method, *args, **kwargs)
MasterCall(method, args, kwargs) ==
    /\ minv < MaxPush
    /\ chan' = chan \o MasterPushes(method, args, kwargs)
    /\ mpushed' = mpushed + Len(MasterPushes(method, args, kwargs))
    /\ minv' = minv + 1
    /\ mlast' = [via |-> "_call", method |-> method, outcome |-> "returned"]
    /\ UNCHANGED <<wmethods, wpc, wcur, wfunc, wsockOpen, wsent, wlog, winvoked,
                   mrecv, nwregops>>
    /\ UNCHANGED <<rpcvars, ctorvars>>

\* master.<method>(...): the attribute lookup runs __getattr__
MasterProxy(method) ==
    /\ minv < MaxPush
    /\ chan' = chan \o MasterProxyPushes(method)
    /\ mpushed' = mpushed + Len(MasterProxyPushes(method))
    /\ minv' = minv + 1
    /\ mlast' = [via |-> "__getattr__", method |-> method, outcome |-> "NameError"]
    /\ UNCHANGED <<wmethods, wpc, wcur, wfunc, wsockOpen, wsent, wlog, winvoked,
                   mrecv, nwregops>>
    /\ UNCHANGED <<rpcvars, ctorvars>>

WorkerAddFunction(n, h) ==
    /\ nwregops < MaxRegOps
    /\ wmethods' = add_function(wmethods, n, h)
    /\ nwregops' = nwregops + 1
    /\ UNCHANGED <<wpc, wcur, wfunc, wsockOpen, chan, wsent, wlog, winvoked,
                   mlast, minv, mpushed, mrecv>>
    /\ methods' = IF sameDict THEN wmethods' ELSE methods
    /\ UNCHANGED <<rpcrest, ctorvars>>

WorkerRemoveFunction(n) ==
    /\ nwregops < MaxRegOps
    /\ wmethods' = remove_function(wmethods, n)
    /\ nwregops' = nwregops + 1
    /\ UNCHANGED <<wpc, wcur, wfunc, wsockOpen, chan, wsent, wlog, winvoked,
                   mlast, minv, mpushed, mrecv>>
    /\ methods' = IF sameDict THEN wmethods' ELSE methods
    /\ UNCHANGED <<rpcrest, ctorvars>>

\* ------------------------------------------------------------- ZWorker._run
\* func_name, args, kwargs = self.get_message()
WorkerRecv ==
    /\ wpc = "recv"
    /\ wsockOpen
    /\ chan # <<>>
    /\ wcur' = get_message(Head(chan))
    /\ chan' = Tail(chan)
    /\ wpc' = "dispatch"
    /\ UNCHANGED <<wmethods, wfunc, wsockOpen, wsent, wlog, winvoked, mlast, minv,
                   mpushed, mrecv, nwregops>>
    /\ UNCHANGED <<rpcvars, ctorvars>>

\* a ZWorker._run that skips a kill_server frame and keeps serving
WorkerKillKeepsServing ==
    /\ wpc = "dispatch"
    /\ wcur.name = KILL
    /\ wpc' = "recv"
    /\ wcur' = NoFrame
    /\ UNCHANGED <<wmethods, wfunc, wsockOpen, chan, wsent, wlog, winvoked, mlast,
                   minv, mpushed, mrecv, nwregops>>
    /\ UNCHANGED <<rpcvars, ctorvars>>

\* if func_name == 'kill_server': self.sock.close(); break
WorkerKill ==
    /\ wpc = "dispatch"
    /\ wcur.name = KILL
    /\ wsent' = wsent \o WorkerKillSends
    /\ wsockOpen' = FALSE
    /\ wpc' = "stopped"
    /\ UNCHANGED <<wmethods, wcur, wfunc, chan, wlog, winvoked, mlast, minv,
                   mpushed, mrecv, nwregops>>
    /\ UNCHANGED <<rpcvars, ctorvars>>

\* except KeyError: pass
WorkerUnknown ==
    /\ wpc = "dispatch"
    /\ wcur.name # KILL
    /\ wcur.name \notin DOMAIN wmethods
    /\ wsent' = wsent \o WorkerUnknownSends
    /\ wpc' = "recv"
    /\ wcur' = NoFrame
    /\ UNCHANGED <<wmethods, wfunc, wsockOpen, chan, wlog, winvoked, mlast, minv,
                   mpushed, mrecv, nwregops>>
    /\ UNCHANGED <<rpcvars, ctorvars>>

\* func = self.methods[func_name]
WorkerLookup ==
    /\ wpc = "dispatch"
    /\ wcur.name # KILL
    /\ wcur.name \in DOMAIN wmethods
    /\ wfunc' = wmethods[wcur.name]
    /\ wpc' = "exec"
    /\ UNCHANGED <<wmethods, wcur, wsockOpen, chan, wsent, wlog, winvoked, mlast,
                   minv, mpushed, mrecv, nwregops>>
    /\ UNCHANGED <<rpcvars, ctorvars>>

\* self._execute_async(func, args, kwargs)
WorkerExecute ==
    /\ wpc = "exec"
    /\ LET out == Invoke(wfunc, wcur.args, wcur.kwargs, wmethods) IN
        /\ wsent' = wsent \o WorkerExecSends(out)
        /\ wlog' = wlog \o AsyncLog(out)
        /\ wpc' = AsyncNext(out)
    /\ winvoked' = winvoked + 1
    /\ wcur' = NoFrame
    /\ wfunc' = ""
    /\ UNCHANGED <<wmethods, wsockOpen, chan, mlast, minv, mpushed, mrecv, nwregops>>
    /\ UNCHANGED <<rpcvars, ctorvars>>

NextWorker ==
    \/ \E method \in MasterNames, args \in MasterArgs, kwargs \in MasterKwargs :
            MasterCall(method, args, kwargs)
    \/ \E method \in MasterNames : MasterProxy(method)
    \/ \E n \in AddNames, h \in UserHandlers : WorkerAddFunction(n, h)
    \/ \E n \in RemoveNames : WorkerRemoveFunction(n)
    \/ WorkerRecv
    \/ WorkerKill
    \/ WorkerUnknown
    \/ WorkerLookup
    \/ WorkerExecute

vars == <<rpcvars, wvars, ctorvars>>
\* a server and its client, the constructor given any of the mappings
Init == InitRPC(InitMappings) /\ InitWorker({NoKw}) /\ sameDict = FALSE
Next == NextRPC
Spec == Init /\ [][Next]_vars
\* the same server and client with the scheduling the code relies on: the
\* thread running _run keeps taking steps while it can (a blocked recv returns
\* once a frame is there), and a client blocked in recv_pyobj returns once
\* its reply is there
ServerStep ==
    \/ \E c \in clients : ServerRecv(c)
    \/ ServerKillReply
    \/ ServerClose
    \/ ServerUnknown
    \/ ServerLookup
    \/ ServerExecute
Fairness ==
    /\ WF_vars(ServerStep)
    /\ \A c \in Clients : WF_vars(ClientRecv(c))
\* the registry is as constructed: add_function and remove_function are not
\* part of a call
NextFair ==
    \/ ServerStep
    \/ \E c \in clients, method \in CallNames, args \in CallArgs, kwargs \in CallKwargs :
            ClientCall(c, method, args, kwargs)
    \/ \E c \in clients : ClientRecv(c)
SpecFair == Init /\ [][NextFair]_vars /\ Fairness
\* a server, its client c1, and a second REQ peer c2 that writes its frames
\* itself: too few parts, a part pickle cannot load, or one part too many
RawPeers == {"c2"}
RawFrames ==
    {<<"echo">>,
     <<"echo", dumps(<<Str("foo")>>)>>,
     <<"echo", Garbage, dumps(NoKw)>>,
     <<"echo", dumps(<<Str("foo")>>), Garbage>>,
     <<"echo", dumps(<<Str("foo")>>), dumps(NoKw), Garbage>>}
\* sock.send_multipart(frame) on a REQ socket of the peer's own
RawSend(c, frame) ==
    /\ cpc[c] = "idle"
    /\ ncalls < MaxCalls
    /\ req' = [req EXCEPT ![c] = Append(@, frame)]
    /\ cpc' = [cpc EXCEPT ![c] = "raw"]
    /\ ncalls' = ncalls + 1
    /\ UNCHANGED <<wvars, registered, ctorvars>>
    /\ UNCHANGED <<clients, methods, spc, cur, peer, func, sockOpen, rep, ccall, cres,
                   hout, nrecv, nsent, ninvoked, nregops>>
InitRaw == InitRPCFor({"c1", "c2"}, {NoKw}) /\ InitWorker({NoKw}) /\ sameDict = FALSE
NextRaw ==
    \/ ServerStep
    \/ \E c \in clients : ServerRecvMalformed(c)
    \/ \E c \in RawPeers, frame \in RawFrames : RawSend(c, frame)
    \/ \E c \in clients \ RawPeers, method \in CallNames, args \in CallArgs,
          kwargs \in CallKwargs : ClientCall(c, method, args, kwargs)
    \/ \E c \in clients : ClientRecv(c)
SpecRaw == InitRaw /\ [][NextRaw]_vars

\* one server and two clients, each on its own REQ socket, each passing its
\* own name as the argument of its calls
MultiNames == {"echo", "documentation", "foo", KILL}
MultiKwargs == {NoKw, [x \in {"_suppress"} |-> PyTrue]}
InitMulti == InitRPCFor({"c1", "c2"}, {NoKw}) /\ InitWorker({NoKw}) /\ sameDict = FALSE
NextMulti ==
    \/ ServerStep
    \/ \E c \in clients, method \in MultiNames, kwargs \in MultiKwargs :
            ClientCall(c, method, <<Str(c)>>, kwargs)
    \/ \E c \in clients : ClientRecv(c)
SpecMulti == InitMulti /\ [][NextMulti]_vars

\* a server and a worker constructed from one and the same mapping of the
\* caller's, then add_function and remove_function on either
InitShared ==
    \E m \in InitMappings :
        /\ InitRPC({m})
        /\ InitWorker({m})
        /\ sameDict = KeepsCallersDict(m)
NextShared ==
    \/ \E n \in AddNames, h \in UserHandlers : AddFunction(n, h)
    \/ \E n \in RemoveNames : RemoveFunction(n)
    \/ \E n \in AddNames, h \in UserHandlers : WorkerAddFunction(n, h)
    \/ \E n \in RemoveNames : WorkerRemoveFunction(n)
SpecShared == InitShared /\ [][NextShared]_vars

\* a server with its client and a worker with its master, a handler put under
\* the name kill_server at construction or by add_function
KillMappings == {NoKw, [n \in {KILL} |-> "h_ret"]}
KillNames == {KILL, "echo"}
InitKill == InitRPC(KillMappings) /\ InitWorker(KillMappings) /\ sameDict = FALSE
NextKill ==
    \/ AddFunction(KILL, "h_ret")
    \/ WorkerAddFunction(KILL, "h_ret")
    \/ \E c \in clients : ServerRecv(c)
    \/ ServerKillReply
    \/ ServerClose
    \/ ServerLookup
    \/ ServerExecute
    \/ \E c \in clients, method \in KillNames :
            ClientCall(c, method, <<Str("foo")>>, NoKw)
    \/ \E c \in clients : ClientRecv(c)
    \/ \E method \in KillNames : MasterCall(method, <<Str("foo")>>, NoKw)
    \/ WorkerRecv
    \/ WorkerKill
    \/ WorkerLookup
    \/ WorkerExecute
SpecKill == InitKill /\ [][NextKill]_vars

\* a worker and its master
InitW == InitRPC({NoKw}) /\ InitWorker(InitMappings) /\ sameDict = FALSE
SpecWorker == InitW /\ [][NextWorker]_vars

\* ------------------------------------------------------------------ claims
Completed(c) == cpc[c] \in {"returned", "raised"} /\ hout[c] # <<>>
Suppressed(c) == Truthy(PopSuppress(ccall[c].kwargs))

\* C1: ZRPCServer._run sends exactly one Response Envelope for every frame it
\* receives, whatever the branch: at the top of the loop and once stopped the
\* envelopes sent equal the frames received, and while a frame is being
\* served exactly the reply to that one frame is outstanding.
C1_OneReplyPerFrame ==
    /\ spc \in {"recv", "closing", "stopped"} => nsent = nrecv
    /\ spc \in {"dispatch", "exec"} => nsent + 1 = nrecv
    /\ \A c \in Clients : Len(rep[c]) <= 1
C1_Witness ==
    /\ spc = "stopped"
    /\ nrecv = 3
    /\ nsent = 3
    /\ ninvoked >= 1

\* C2 as stated: for every name in the registry, kill_server included, the
\* proxy call returns what the registered handler returns for the arguments.
C2_RoundTripAnyName ==
    \A c \in Clients :
        (Completed(c) /\ hout[c][1].registered /\ ~hout[c][1].out.raised)
            => (cpc[c] = "returned" /\ cres[c] = hout[c][1].out.value)
\* C2 amended: for every name other than kill_server in the registry when the
\* server looks it up, the proxy call returns exactly what the handler
\* returned for the forwarded arguments (kwargs without _suppress).
C2_RoundTrip ==
    \A c \in Clients :
        (Completed(c) /\ ccall[c].method # KILL
            /\ hout[c][1].registered /\ ~hout[c][1].out.raised)
            => (cpc[c] = "returned" /\ cres[c] = hout[c][1].out.value)
C2_Witness ==
    /\ Completed("c1")
    /\ ccall["c1"].method = "foo"
    /\ hout["c1"][1].branch = "exec"
    /\ nregops >= 1
    /\ cres["c1"] = PyTuple(<<Str("foo")>>, [x \in {"statement"} |-> Str("foo")])

\* C3: a call of a name that is not in the registry (the lookup's KeyError
\* branch) is answered with status None and result None; the proxy call raises NotImplementedError(name)
\* or, called with a true _suppress, returns None.
C3_UnknownMethod ==
    \A c \in Clients :
        (hout[c] # <<>> /\ hout[c][1].branch = "unknown") =>
            /\ rep[c] # <<>> =>
                    recv_pyobj(Head(rep[c])) = [status |-> None, result |-> None]
            /\ Completed(c) =>
                    IF Suppressed(c)
                    THEN cpc[c] = "returned" /\ cres[c] = None
                    ELSE /\ cpc[c] = "raised"
                         /\ cres[c] = Exc("NotImplementedError", ccall[c].method)
C3_Witness ==
    /\ Completed("c1")
    /\ hout["c1"][1].branch = "unknown"
    /\ Suppressed("c1")
    /\ cres["c1"] = None
    /\ ncalls >= 2

\* C4: when the handler raises E the server answers status False and
\* result (E, formatted trace); the proxy call raises E or, called with a true
\* _suppress, returns None.
C4_HandlerFailure ==
    \A c \in Clients :
        (hout[c] # <<>> /\ hout[c][1].branch = "exec" /\ hout[c][1].out.raised) =>
            /\ rep[c] # <<>> =>
                    recv_pyobj(Head(rep[c])) =
                        [status |-> PyFalse,
                         result |-> Pair(hout[c][1].out.value,
                                         format_exc(hout[c][1].out.value))]
            /\ Completed(c) =>
                    IF Suppressed(c)
                    THEN cpc[c] = "returned" /\ cres[c] = None
                    ELSE cpc[c] = "raised" /\ cres[c] = hout[c][1].out.value
C4_Witness ==
    /\ Completed("c1")
    /\ hout["c1"][1].branch = "exec"
    /\ hout["c1"][1].out.raised
    /\ ~Suppressed("c1")
    /\ cpc["c1"] = "raised"
    /\ cres["c1"] = Exc("NameError", "foo")

\* C5: on kill_server the server sends status True, result True, then closes
\* its socket, then stops; no handler runs for that frame; once stopped it
\* never receives, invokes or sends again.
C5_Shutdown ==
    /\ [](/\ spc = "closing" => (sockOpen /\ nsent = nrecv)
          /\ spc = "stopped" <=> ~sockOpen
          /\ \A c \in Clients :
                (hout[c] # <<>> /\ hout[c][1].branch = "kill" /\ rep[c] # <<>>)
                    => recv_pyobj(Head(rep[c])) =
                            [status |-> PyTrue, result |-> PyTrue])
    /\ [][/\ (spc = "dispatch" /\ cur.name = KILL /\ spc' # spc)
                => /\ spc' = "closing"
                   /\ sockOpen'
                   /\ ninvoked' = ninvoked
                   /\ rep'[peer] = Append(rep[peer],
                            send_pyobj([status |-> PyTrue, result |-> PyTrue]))
          /\ spc = "closing" => ninvoked' = ninvoked
          /\ spc = "stopped"
                => /\ spc' = "stopped"
                   /\ nrecv' = nrecv
                   /\ nsent' = nsent
                   /\ ninvoked' = ninvoked
                   /\ \A c \in Clients : Len(rep'[c]) <= Len(rep[c])
                   /\ \A c \in Clients : Len(req'[c]) >= Len(req[c])]_vars
C5_Witness ==
    /\ spc = "stopped"
    /\ KILL \in DOMAIN methods
    /\ cpc["c1"] = "waiting"
    /\ req["c1"] # <<>>
    /\ ninvoked = 0

ForwardedAsPassed(c, name, args, kwargs) ==
    /\ name = ccall[c].method
    /\ args = ccall[c].args
    /\ "_suppress" \notin DOMAIN kwargs
    /\ DOMAIN kwargs \cup {"_suppress"} = DOMAIN ccall[c].kwargs \cup {"_suppress"}
    /\ \A key \in DOMAIN kwargs : kwargs[key] = ccall[c].kwargs[key]
C7_SuppressNotForwarded ==
    /\ \A c \in Clients : \A i \in 1..Len(req[c]) :
            /\ Len(req[c][i]) = 3
            /\ ForwardedAsPassed(c, req[c][i][1], loads(req[c][i][2]), loads(req[c][i][3]))
    /\ spc \in {"dispatch", "exec"} =>
            ForwardedAsPassed(peer, cur.name, cur.args, cur.kwargs)
C7_Witness ==
    /\ spc = "exec"
    /\ peer = "c1"
    /\ ccall["c1"].kwargs = [x \in {"_suppress", "statement"} |->
                                IF x = "_suppress" THEN PyFalse ELSE Str("foo")]
    /\ cur.kwargs = [x \in {"statement"} |-> Str("foo")]

\* C8: every invocation through ZMaster pushes exactly one call frame and
\* returns without receiving anything.
C8_MasterPushesOne ==
    /\ mpushed = minv
    /\ mrecv = 0
    /\ mlast.outcome \in {"", "returned"}

C10_WorkerFaultTolerance ==
    [][/\ (wpc = "exec" /\ wpc' # wpc
            /\ Invoke(wfunc, wcur.args, wcur.kwargs, wmethods).raised)
            => /\ wpc' = "recv"
               /\ wsockOpen'
               /\ wmethods' = wmethods
               /\ chan' = chan
               /\ wsent' = wsent
               /\ Len(wlog') = Len(wlog) + 1
       /\ (wpc = "dispatch" /\ wpc' # wpc /\ wcur.name # KILL
            /\ wcur.name \notin DOMAIN wmethods)
            => /\ wpc' = "recv"
               /\ wsockOpen'
               /\ wmethods' = wmethods
               /\ chan' = chan
               /\ wsent' = wsent
               /\ wlog' = wlog]_vars
C10_Witness ==
    /\ wlog # <<>>
    /\ wpc = "dispatch"
    /\ winvoked = 1
    /\ chan = <<>>

\* C11: on pulling a frame named kill_server the worker closes its socket and
\* leaves its loop, invoking no handler, sending and logging nothing and
\* leaving the queued frames where they are; once stopped it stays stopped,
\* pulls no frame, invokes nothing and sends nothing, so frames queued after
\* the sentinel stay in the channel.
C11_WorkerShutdown ==
    /\ [](wpc = "stopped" => ~wsockOpen)
    /\ [][/\ (wpc = "dispatch" /\ wcur.name = KILL /\ wpc' # wpc)
               => /\ wpc' = "stopped"
                  /\ ~wsockOpen'
                  /\ winvoked' = winvoked
                  /\ wsent' = wsent
                  /\ wlog' = wlog
                  /\ chan' = chan
          /\ wpc = "stopped"
               => /\ wpc' = "stopped"
                  /\ ~wsockOpen'
                  /\ winvoked' = winvoked
                  /\ wsent' = wsent
                  /\ Len(chan') >= Len(chan)
                  /\ SubSeq(chan', 1, Len(chan)) = chan]_vars
C11_Witness ==
    /\ wpc = "stopped"
    /\ KILL \in DOMAIN wmethods
    /\ Len(chan) = 1
    /\ winvoked = 0
    /\ mpushed = 2

\* C12 as stated: right after construction (before any add_function or
\* remove_function) both registries hold list_functions and documentation,
\* the server's holds echo and the worker's does not.
C12_EchoOnlyOnServer ==
    /\ nregops = 0 => BuiltinNames \subseteq DOMAIN methods
    /\ nwregops = 0 => /\ {"list_functions", "documentation"} \subseteq DOMAIN wmethods
                       /\ "echo" \notin DOMAIN wmethods
\* C12: right after construction the registry of either server kind holds
\* all three built-ins, echo included, each bound to its built-in handler.
C12_BuiltinSeeding ==
    /\ nregops = 0 => /\ BuiltinNames \subseteq DOMAIN methods
                      /\ methods["echo"] = "_echo"
    /\ nwregops = 0 => /\ BuiltinNames \subseteq DOMAIN wmethods
                       /\ wmethods["list_functions"] = "_list_methods"
                       /\ wmethods["documentation"] = "_get_doc"
                       /\ wmethods["echo"] = "_echo"
C12_Witness ==
    /\ nwregops = 0
    /\ wpc = "exec"
    /\ wfunc = "_echo"
    /\ wcur.name = "echo"

\* C13: the step that answers a call whose handler raised, or a call to an
\* unknown name, sends that one reply and puts the server back at the top of
\* its loop with the socket open and the registry as it was; the loop is left
\* only from the kill_server branch, so a server awaiting a request can
\* always take the next one.
C13_FaultKeepsServing ==
    /\ [](spc = "recv" => sockOpen)
    /\ [][/\ (spc = "exec" /\ spc' # spc
                /\ Invoke(func, cur.args, cur.kwargs, methods).raised)
               => /\ spc' = "recv"
                  /\ sockOpen'
                  /\ methods' = methods
                  /\ nsent' = nsent + 1
                  /\ Len(rep'[peer]) = Len(rep[peer]) + 1
          /\ (spc = "dispatch" /\ spc' # spc /\ cur.name # KILL
                /\ cur.name \notin DOMAIN methods)
               => /\ spc' = "recv"
                  /\ sockOpen'
                  /\ methods' = methods
                  /\ nsent' = nsent + 1
                  /\ Len(rep'[peer]) = Len(rep[peer]) + 1
          /\ (spc' \notin {"recv", "dispatch", "exec"} /\ spc \in {"recv", "dispatch", "exec"})
               => (spc = "dispatch" /\ cur.name = KILL)
          /\ (spc = "recv" /\ \E c \in clients : req[c] # <<>>)
               => ENABLED (\E c \in clients : ServerRecv(c))]_vars
\* an unknown name was answered, the next call was received and its handler
\* raised, that was answered too, and the server awaits the third request
C13_Witness ==
    /\ nrecv = 2
    /\ nsent = 2
    /\ ninvoked = 1
    /\ spc = "recv"
    /\ sockOpen
    /\ hout["c1"] # <<>>
    /\ hout["c1"][1].branch = "exec"
    /\ hout["c1"][1].out.raised
    /\ cpc["c1"] = "raised"

\* C14: under fair scheduling a proxy call pending at a server that has not
\* entered its shutdown (or whose reply is already on the way) completes, by
\* returning or raising; the call puts exactly one frame on the client's
\* endpoint, nothing more is sent on it while the call is pending, and the
\* call ends by taking exactly one envelope from it.
C14_CallCompletes ==
    /\ \A c \in Clients :
          (c \in clients /\ cpc[c] = "waiting"
             /\ (spc \in {"recv", "dispatch", "exec"} \/ rep[c] # <<>>))
              ~> (cpc[c] \in {"returned", "raised"})
    /\ [][\A c \in clients :
            /\ (cpc[c] # "waiting" /\ cpc'[c] = "waiting")
                   => (Len(req'[c]) = Len(req[c]) + 1 /\ rep'[c] = rep[c])
            /\ (cpc[c] = "waiting" /\ cpc'[c] = "waiting")
                   => Len(req'[c]) <= Len(req[c])
            /\ (cpc[c] = "waiting" /\ cpc'[c] # "waiting")
                   => /\ cpc'[c] \in {"returned", "raised"}
                      /\ rep[c] # <<>>
                      /\ rep'[c] = Tail(rep[c])
                      /\ req'[c] = req[c]
            /\ (cpc[c] # "waiting" /\ cpc'[c] # "waiting")
                   => (cpc'[c] = cpc[c] /\ req'[c] = req[c] /\ rep'[c] = rep[c])]_vars
C14_Witness ==
    /\ ncalls = 3
    /\ nrecv = 3
    /\ cpc["c1"] = "raised"
    /\ spc = "recv"
    /\ req["c1"] = <<>>
    /\ rep["c1"] = <<>>
    /\ hout["c1"] # <<>>
    /\ hout["c1"][1].branch = "unknown"

\* C15: when the frame the server takes has fewer than three parts, or a
\* second or third part that cannot be decoded, the loop is left at once:
\* no envelope is sent for it, no handler runs, the socket is not closed; a
\* loop left that way takes no further frame, sends nothing and runs nothing.
\* A frame with three decodable parts (and any number after them) is served.
C15_MalformedFrame ==
    [][/\ \A c \in clients :
            (spc = "recv" /\ req[c] # <<>> /\ req'[c] = Tail(req[c]))
               => IF get_message_fails(Head(req[c]))
                  THEN /\ spc' = "crashed"
                       /\ rep' = rep
                       /\ nsent' = nsent
                       /\ ninvoked' = ninvoked
                       /\ sockOpen' = sockOpen
                  ELSE spc' = "dispatch"
       /\ spc = "crashed"
            => /\ spc' = "crashed"
               /\ nrecv' = nrecv
               /\ nsent' = nsent
               /\ ninvoked' = ninvoked
               /\ \A c \in clients : Len(req'[c]) >= Len(req[c])
               /\ \A c \in clients : Len(rep'[c]) <= Len(rep[c])]_vars
\* the server left its loop on c2's frame; c1's later call stays unserved
C15_Witness ==
    /\ spc = "crashed"
    /\ peer = "c2"
    /\ sockOpen
    /\ nsent = 1
    /\ nrecv = 2
    /\ cpc["c1"] = "waiting"
    /\ Len(req["c1"]) = 1
    /\ rep["c1"] = <<>>
    /\ rep["c2"] = <<>>

\* C16: when the handler of a pulled frame returns normally it has been
\* invoked exactly once and the worker is back at the top of its loop, its
\* socket open, ready to pull the next frame.
C16_WorkerSuccessContinues ==
    [][(wpc = "exec" /\ wpc' # wpc
          /\ ~Invoke(wfunc, wcur.args, wcur.kwargs, wmethods).raised)
         => /\ winvoked' = winvoked + 1
            /\ wpc' = "recv"
            /\ wsockOpen']_vars

\* C17: with two clients calling one server, the server is serving at most
\* one frame at a time and it is the frame of the peer it will answer; each
\* client has at most one frame or envelope in flight, and none when no call
\* of its is pending; an envelope on its way to a client is the one the
\* server produces for that client's own call, and an echo call that
\* returns gives the caller back its own argument.
InFlight(c) ==
    Len(req[c]) + Len(rep[c])
        + (IF spc \in {"dispatch", "exec"} /\ peer = c THEN 1 ELSE 0)
ExpectedReply(c) ==
    IF ccall[c].method = KILL THEN KillReply
    ELSE IF ccall[c].method \notin DOMAIN methods THEN UnknownReply
    ELSE ExecReply(Invoke(methods[ccall[c].method], ccall[c].args,
                          WithoutSuppress(ccall[c].kwargs), methods))
C17_OwnReply ==
    /\ spc \in {"dispatch", "exec"}
          => /\ cpc[peer] = "waiting"
             /\ cur.name = ccall[peer].method
             /\ cur.args = ccall[peer].args
    /\ spc = "exec" => func = methods[ccall[peer].method]
    /\ \A c \in clients :
          /\ InFlight(c) <= 1
          /\ cpc[c] # "waiting" => InFlight(c) = 0
          /\ rep[c] # <<>> => rep[c] = <<send_pyobj(ExpectedReply(c))>>
          /\ (cpc[c] = "returned" /\ ccall[c].method = "echo" /\ ~Suppressed(c))
                => cres[c] = Str(c)
          /\ (cpc[c] = "raised" /\ ccall[c].method = "documentation")
                => cres[c] = Exc("NotImplementedError", c)
\* the envelopes of both clients are under way at once, each its own
C17_Witness ==
    /\ cpc["c1"] = "waiting"
    /\ cpc["c2"] = "waiting"
    /\ ccall["c1"].method = "echo"
    /\ ccall["c2"].method = "echo"
    /\ rep["c1"] = <<send_pyobj([status |-> PyTrue, result |-> Str("c1")])>>
    /\ rep["c2"] = <<send_pyobj([status |-> PyTrue, result |-> Str("c2")])>>

\* C18: constructing a server from the caller's mapping leaves that mapping
\* as the caller passed it, and a registry (hence its listing) changes only
\* in a step of its own server's add_function or remove_function.
C18_ConstructionKeepsMapping ==
    (nregops = 0 /\ nwregops = 0) => CallerMapping = wsupplied
C18_OwnRegistryOnly ==
    /\ nregops' = nregops
          => (methods' = methods /\ list_methods(methods') = list_methods(methods))
    /\ nwregops' = nwregops
          => (wmethods' = wmethods /\ list_methods(wmethods') = list_methods(wmethods))
C18_ExclusiveOwnership ==
    /\ [][C18_OwnRegistryOnly]_vars
    /\ []C18_ConstructionKeepsMapping

\* C19: in both loops a frame named kill_server never reaches the handler
\* call, whatever the registry holds under that name: the step that
\* dispatches it invokes nothing and leaves the loop (the server after its
\* one acknowledgment, the worker at once with its socket closed).
C19_SentinelPrecedence ==
    /\ [](spc = "exec" => cur.name # KILL)
    /\ [](wpc = "exec" => wcur.name # KILL)
    /\ [][/\ (spc = "dispatch" /\ cur.name = KILL /\ spc' # spc)
               => /\ spc' = "closing"
                  /\ ninvoked' = ninvoked
                  /\ rep'[peer] = Append(rep[peer], send_pyobj(KillReply))
          /\ (spc = "closing" /\ spc' # spc)
               => (spc' = "stopped" /\ ~sockOpen' /\ ninvoked' = ninvoked)
          /\ (wpc = "dispatch" /\ wcur.name = KILL /\ wpc' # wpc)
               => /\ wpc' = "stopped"
                  /\ ~wsockOpen'
                  /\ winvoked' = winvoked]_vars
\* both loops were shut down by the sentinel with a handler registered under
\* its name, the server's by add_function, and neither invoked anything
C19_Witness ==
    /\ spc = "stopped"
    /\ wpc = "stopped"
    /\ KILL \in DOMAIN methods
    /\ KILL \in DOMAIN wmethods
    /\ wsupplied # NoKw
    /\ nregops = 1
    /\ nrecv = 1
    /\ ninvoked = 0
    /\ winvoked = 0
    /\ cres["c1"] = PyTrue

\* C20: right after construction list_functions, documentation and echo map
\* to the built-in handlers even where the mapping passed to the constructor
\* had its own entry under one of them, every other supplied entry is kept,
\* and the handler under a built-in name changes only in a step of
\* add_function (which may put the supplied handler back) or is dropped by
\* remove_function.
BuiltinHandler(n) ==
    CASE n = "list_functions" -> "_list_methods"
      [] n = "documentation" -> "_get_doc"
      [] n = "echo" -> "_echo"
C20_SeedingOverrides ==
    /\ [](nwregops = 0
            => /\ \A n \in BuiltinNames :
                    n \in DOMAIN wmethods /\ wmethods[n] = BuiltinHandler(n)
               /\ \A n \in (DOMAIN wsupplied) \ BuiltinNames :
                    n \in DOMAIN wmethods /\ wmethods[n] = wsupplied[n])
    /\ [][\A n \in BuiltinNames :
            (n \in DOMAIN wmethods /\ n \in DOMAIN wmethods' /\ wmethods'[n] # wmethods[n])
               => (nwregops' = nwregops + 1 /\ wmethods'[n] \in UserHandlers)]_vars
\* the supplied mapping had its own echo, and the frame named echo is about
\* to run the built-in
C20_Witness ==
    /\ nwregops = 0
    /\ "echo" \in DOMAIN wsupplied
    /\ wsupplied["echo"] = "h_raise"
    /\ wmethods["echo"] = "_echo"
    /\ wpc = "exec"
    /\ wcur.name = "echo"
    /\ wfunc = "_echo"

====
